---- MODULE Spec2Model ----
(***************************************************************************)
(* Dependency graph store (NetworkXGraphStorage), record store             *)
(* (DuckDBTableStorage), task coordinator (TaskService) and the task       *)
(* splitting engine (TaskSplittingService) of spectrum-cockpit-os.         *)
(***************************************************************************)
EXTENDS Integers, Sequences, FiniteSets, TLC

VARIABLES graph, nodes, table, last, ops, loop

vars == <<graph, nodes, table, last, ops, loop>>

(***************************************************************************)
(* Bounds                                                                  *)
(***************************************************************************)
\* number of distinct identifiers (UUIDs) in play
NumIds == 3
\* longest dependency list a caller passes or a record holds
MaxDeps == 2
\* number of coordinator calls in one behaviour
MaxOps == 3
\* longest dependency list of a task template
MaxTemplateDeps == 1
\* most task templates in one split request
MaxTemplates == 2

Ids == 1..NumIds

DEPENDS_ON == "depends_on"
Relationships == {DEPENDS_ON, "blocks"}

PENDING == "PENDING"
IN_PROGRESS == "IN_PROGRESS"
COMPLETED == "COMPLETED"
BLOCKED == "BLOCKED"

(***************************************************************************)
(* Sequence helpers                                                        *)
(***************************************************************************)
SeqToSet(s) == {s[i] : i \in DOMAIN s}

Reverse(s) == [i \in 1..Len(s) |-> s[Len(s) + 1 - i]]

SeqsUpTo(S, n) == UNION {[1..k -> S] : k \in 0..n}

\* the value of a function defined on one argument, With([x \in {v} |-> e]):
\* e with x standing for v, v computed once
With(f) == CHOOSE result \in UNION {{g[x] : x \in DOMAIN g} : g \in {f}} : TRUE

(***************************************************************************)
(* networkx.DiGraph: node order and per-node adjacency in insertion order  *)
(***************************************************************************)
NxEmpty == [order |-> <<>>, adj |-> [n \in Ids |-> <<>>]]

NxNodes(G) == SeqToSet(G.order)

NxHasEdge(G, u, v) == \E i \in DOMAIN G.adj[u] : G.adj[u][i].to = v

NxEdgeData(G, u, v) ==
    LET i == CHOOSE j \in DOMAIN G.adj[u] : G.adj[u][j].to = v
    IN  G.adj[u][i].relationship

NxEdges(G) == {p \in Ids \X Ids : NxHasEdge(G, p[1], p[2])}

NxAddNode(G, n) ==
    IF n \in NxNodes(G) THEN G ELSE [G EXCEPT !.order = Append(@, n)]

NxAddEdge(G, u, v, r) ==
    LET G1 == NxAddNode(NxAddNode(G, u), v)
        old == G1.adj[u]
        new == IF NxHasEdge(G1, u, v)
               THEN [i \in DOMAIN old |->
                        IF old[i].to = v
                        THEN [to |-> v, relationship |-> r]
                        ELSE old[i]]
               ELSE Append(old, [to |-> v, relationship |-> r])
    IN  [G1 EXCEPT !.adj[u] = new]

NxRemoveEdge(G, u, v) ==
    [G EXCEPT !.adj[u] = SelectSeq(@, LAMBDA e : e.to # v)]

NxRemoveNode(G, n) ==
    [order |-> SelectSeq(G.order, LAMBDA x : x # n),
     adj   |-> [u \in Ids |->
                 IF u = n THEN <<>>
                 ELSE SelectSeq(G.adj[u], LAMBDA e : e.to # n)]]

NxSuccessors(G, n) == [i \in DOMAIN G.adj[n] |-> G.adj[n][i].to]

NxInDegree(G, v) == Cardinality({u \in Ids : NxHasEdge(G, u, v)})

\* networkx.topological_generations: Kahn's algorithm, generation by generation
RECURSIVE NxVisitChildren(_, _, _)
NxVisitChildren(children, indegree_map, zero_indegree) ==
    IF children = <<>>
    THEN [indegree_map |-> indegree_map, zero_indegree |-> zero_indegree]
    ELSE LET child == Head(children)
             d     == indegree_map[child] - 1
         IN  NxVisitChildren(Tail(children),
                             [indegree_map EXCEPT ![child] = d],
                             IF d = 0 THEN Append(zero_indegree, child)
                                      ELSE zero_indegree)

RECURSIVE NxVisitGeneration(_, _, _, _)
NxVisitGeneration(G, generation, indegree_map, zero_indegree) ==
    IF generation = <<>>
    THEN [indegree_map |-> indegree_map, zero_indegree |-> zero_indegree]
    ELSE LET r == NxVisitChildren(NxSuccessors(G, Head(generation)),
                                  indegree_map, zero_indegree)
         IN  NxVisitGeneration(G, Tail(generation),
                               r.indegree_map, r.zero_indegree)

RECURSIVE NxGenerations(_, _, _, _)
NxGenerations(G, zero_indegree, indegree_map, out) ==
    IF zero_indegree = <<>>
    THEN [sorted |-> out,
          unfeasible |-> \E n \in Ids : indegree_map[n] > 0]
    ELSE LET r == NxVisitGeneration(G, zero_indegree, indegree_map, <<>>)
         IN  NxGenerations(G, r.zero_indegree, r.indegree_map,
                           out \o zero_indegree)

NxTopologicalSort(G) ==
    NxGenerations(G,
                  SelectSeq(G.order, LAMBDA v : NxInDegree(G, v) = 0),
                  [v \in Ids |-> NxInDegree(G, v)],
                  <<>>)

NxIsDirectedAcyclicGraph(G) == ~NxTopologicalSort(G).unfeasible

(***************************************************************************)
(* NetworkXGraphStorage: gs = [graph |-> DiGraph, nodes |-> id -> data]    *)
(***************************************************************************)
GraphNode(id, data) == [id |-> id, data |-> data]

GraphEdge(from_id, to_id, relationship) ==
    [from_id |-> from_id, to_id |-> to_id, relationship |-> relationship]

EmptyNodes == [n \in {} |-> [name |-> "", status |-> ""]]

EmptyGraphStorage == [graph |-> NxEmpty, nodes |-> EmptyNodes]

DictSet(d, k, v) == [x \in (DOMAIN d) \cup {k} |-> IF x = k THEN v ELSE d[x]]

DictDel(d, k) == [x \in (DOMAIN d) \ {k} |-> d[x]]

add_node(gs, node) ==
    IF node.id \in DOMAIN gs.nodes
    THEN [gs |-> gs, ret |-> FALSE]
    ELSE [gs  |-> [graph |-> NxAddNode(gs.graph, node.id),
                   nodes |-> DictSet(gs.nodes, node.id, node.data)],
          ret |-> TRUE]

\* variant: the cycle test always answers "no cycle"
_would_create_cycle_never(gs, new_edge) == [gs |-> gs, ret |-> FALSE]

\* variant: the temporary edge is not removed after the test
_would_create_cycle_no_revert(gs, new_edge) ==
    LET added  == NxAddEdge(gs.graph, new_edge.from_id, new_edge.to_id,
                            new_edge.relationship)
        cyclic == ~NxIsDirectedAcyclicGraph(added)
    IN  [gs |-> [gs EXCEPT !.graph = added], ret |-> cyclic]

\* variant: only a self-loop or the reverse of an existing edge counts as a
\* cycle
_would_create_cycle_direct(gs, new_edge) ==
    [gs |-> gs,
     ret |-> \/ new_edge.from_id = new_edge.to_id
             \/ NxHasEdge(gs.graph, new_edge.to_id, new_edge.from_id)]

\* temporarily add the edge, test for a cycle, remove the edge again
_would_create_cycle(gs, new_edge) ==
    LET added   == NxAddEdge(gs.graph, new_edge.from_id, new_edge.to_id,
                             new_edge.relationship)
        cyclic  == ~NxIsDirectedAcyclicGraph(added)
        removed == NxRemoveEdge(added, new_edge.from_id, new_edge.to_id)
    IN  [gs |-> [gs EXCEPT !.graph = removed], ret |-> cyclic]

add_edge(gs, edge) ==
    IF edge.from_id \notin DOMAIN gs.nodes \/ edge.to_id \notin DOMAIN gs.nodes
    THEN [gs |-> gs, ret |-> FALSE]
    ELSE LET c == _would_create_cycle(gs, edge)
         IN  IF c.ret
             THEN [gs |-> c.gs, ret |-> FALSE]
             ELSE [gs  |-> [c.gs EXCEPT !.graph =
                               NxAddEdge(@, edge.from_id, edge.to_id,
                                         edge.relationship)],
                   ret |-> TRUE]

\* variant: the node goes, the edges that touch it stay
remove_node_keep_edges(gs, node_id) ==
    IF node_id \notin DOMAIN gs.nodes
    THEN [gs |-> gs, ret |-> FALSE]
    ELSE [gs  |-> [graph |-> [gs.graph EXCEPT
                                 !.order = SelectSeq(@, LAMBDA x : x # node_id)],
                   nodes |-> DictDel(gs.nodes, node_id)],
          ret |-> TRUE]

remove_node(gs, node_id) ==
    IF node_id \notin DOMAIN gs.nodes
    THEN [gs |-> gs, ret |-> FALSE]
    ELSE [gs  |-> [graph |-> NxRemoveNode(gs.graph, node_id),
                   nodes |-> DictDel(gs.nodes, node_id)],
          ret |-> TRUE]

remove_edge(gs, edge) ==
    IF ~NxHasEdge(gs.graph, edge.from_id, edge.to_id)
    THEN [gs |-> gs, ret |-> FALSE]
    ELSE IF NxEdgeData(gs.graph, edge.from_id, edge.to_id) = edge.relationship
         THEN [gs  |-> [gs EXCEPT !.graph =
                           NxRemoveEdge(@, edge.from_id, edge.to_id)],
               ret |-> TRUE]
         ELSE [gs |-> gs, ret |-> FALSE]

get_dependencies(gs, node_id) ==
    IF node_id \notin NxNodes(gs.graph) THEN <<>>
    ELSE NxSuccessors(gs.graph, node_id)

has_cycle(gs) == ~NxIsDirectedAcyclicGraph(gs.graph)

\* raised = TRUE stands for ValueError("Graph contains cycles")
\* variant: the order is returned back to front
topological_sort_reversed(gs) ==
    IF has_cycle(gs)
    THEN [raised |-> TRUE, ret |-> <<>>]
    ELSE [raised |-> FALSE, ret |-> Reverse(NxTopologicalSort(gs.graph).sorted)]

\* variant: the nodes are returned in the order of their insertion
topological_sort_insertion_order(gs) ==
    IF has_cycle(gs)
    THEN [raised |-> TRUE, ret |-> <<>>]
    ELSE [raised |-> FALSE, ret |-> gs.graph.order]

topological_sort(gs) ==
    IF has_cycle(gs)
    THEN [raised |-> TRUE, ret |-> <<>>]
    ELSE [raised |-> FALSE, ret |-> NxTopologicalSort(gs.graph).sorted]

get_all_edges(gs) ==
    {GraphEdge(p[1], p[2], NxEdgeData(gs.graph, p[1], p[2])) :
        p \in NxEdges(gs.graph)}

clear(gs) == EmptyGraphStorage

(***************************************************************************)
(* DuckDBTableStorage: rows in insertion (created_at) order                *)
(***************************************************************************)
NONE == "NONE"

Task(id, name, description, status, complexity, estimated_hours, deps) ==
    [id |-> id, name |-> name, description |-> description,
     status |-> status, complexity |-> complexity,
     estimated_hours |-> estimated_hours, dependencies |-> deps]

TableIds(T) == {T[i].id : i \in DOMAIN T}

exists(T, item_id) == item_id \in TableIds(T)

\* only applied where exists(T, item_id); callers test exists first (None)
get_by_id(T, item_id) ==
    T[CHOOSE i \in DOMAIN T : T[i].id = item_id]

list_all(T) == T

\* raised = TRUE stands for ValueError("Item with ID ... already exists")
table_create(T, item) ==
    IF exists(T, item.id)
    THEN [table |-> T, raised |-> TRUE]
    ELSE [table |-> Append(T, item), raised |-> FALSE]

\* raised = TRUE stands for ValueError("Item with ID ... doesn't exist")
table_update(T, item) ==
    IF ~exists(T, item.id)
    THEN [table |-> T, raised |-> TRUE]
    ELSE [table  |-> [i \in DOMAIN T |->
                        IF T[i].id = item.id THEN item ELSE T[i]],
          raised |-> FALSE]

table_delete(T, item_id) ==
    IF ~exists(T, item_id)
    THEN [table |-> T, ret |-> FALSE]
    ELSE [table |-> SelectSeq(T, LAMBDA r : r.id # item_id), ret |-> TRUE]

\* variant: the rows are kept
table_clear_none(T) == T

table_clear(T) == <<>>

(***************************************************************************)
(* TaskService: st = [table |-> rows, gs |-> graph storage]                *)
(* Every operation returns the stores it leaves behind, the error it       *)
(* raised ("" when it returned) and its return value.                      *)
(***************************************************************************)
NoError == ""
ErrExists == "already exists"
ErrNotExist == "doesn't exist"
ErrNode == "Failed to create graph node"
ErrTaskNotFound == "Task not found"
ErrDepNotFound == "Dependency task not found"
ErrCycle == "Failed to add dependency (would create cycle)"

Outcome(T, gs, raised, ret) ==
    [table |-> T, gs |-> gs, raised |-> raised, ret |-> ret]

NodeData(task) == [name |-> task.name, status |-> task.status]

RECURSIVE _add_task_dependencies(_, _, _)
_add_task_dependencies(st, task_id, dependencies) ==
    IF dependencies = <<>>
    THEN Outcome(st.table, st.gs, NoError, TRUE)
    ELSE LET dep == Head(dependencies)
         IN  IF ~exists(st.table, dep)
             THEN Outcome(st.table, st.gs, ErrDepNotFound, FALSE)
             ELSE LET e == add_edge(st.gs, GraphEdge(task_id, dep, DEPENDS_ON))
                  IN  IF ~e.ret
                      THEN Outcome(st.table, e.gs, ErrCycle, FALSE)
                      ELSE _add_task_dependencies(
                               [table |-> st.table, gs |-> e.gs],
                               task_id, Tail(dependencies))

create_task(st, task) ==
    LET c == table_create(st.table, task)
    IN  IF c.raised
        THEN Outcome(st.table, st.gs, ErrExists, FALSE)
        ELSE LET n == add_node(st.gs, GraphNode(task.id, NodeData(task)))
             IN  IF ~n.ret
                 THEN Outcome(table_delete(c.table, task.id).table, n.gs,
                              ErrNode, FALSE)
                 ELSE IF task.dependencies # <<>>
                      THEN _add_task_dependencies(
                               [table |-> c.table, gs |-> n.gs],
                               task.id, task.dependencies)
                      ELSE Outcome(c.table, n.gs, NoError, TRUE)

update_task(st, task) ==
    LET u == table_update(st.table, task)
    IN  IF u.raised
        THEN Outcome(st.table, st.gs, ErrNotExist, FALSE)
        ELSE LET removed == remove_node(st.gs, task.id).gs
                 added   == add_node(removed,
                                     GraphNode(task.id, NodeData(task))).gs
             IN  IF task.dependencies # <<>>
                 THEN _add_task_dependencies(
                          [table |-> u.table, gs |-> added],
                          task.id, task.dependencies)
                 ELSE Outcome(u.table, added, NoError, TRUE)

\* variant: the graph node is left behind
delete_task_table_only(st, task_id) ==
    LET table_deleted == table_delete(st.table, task_id)
    IN  Outcome(table_deleted.table, st.gs, NoError, table_deleted.ret)

\* variant: only the graph node is removed, the row stays
delete_task_graph_only(st, task_id) ==
    LET graph_deleted == remove_node(st.gs, task_id)
    IN  Outcome(st.table, graph_deleted.gs, NoError, graph_deleted.ret)

delete_task(st, task_id) ==
    LET table_deleted == table_delete(st.table, task_id)
        graph_deleted == remove_node(st.gs, task_id)
    IN  Outcome(table_deleted.table, graph_deleted.gs, NoError,
                table_deleted.ret /\ graph_deleted.ret)

\* variant: the dependency list is rewritten whether or not the edge was
\* added
add_dependency_unchecked(st, task_id, depends_on_id) ==
    IF ~exists(st.table, task_id)
    THEN Outcome(st.table, st.gs, ErrTaskNotFound, FALSE)
    ELSE IF ~exists(st.table, depends_on_id)
    THEN Outcome(st.table, st.gs, ErrDepNotFound, FALSE)
    ELSE LET task == get_by_id(st.table, task_id)
             e    == add_edge(st.gs,
                              GraphEdge(task_id, depends_on_id, DEPENDS_ON))
         IN  Outcome(table_update(st.table,
                         [task EXCEPT !.dependencies =
                             Append(@, depends_on_id)]).table,
                     e.gs, NoError, e.ret)

add_dependency(st, task_id, depends_on_id) ==
    IF ~exists(st.table, task_id)
    THEN Outcome(st.table, st.gs, ErrTaskNotFound, FALSE)
    ELSE IF ~exists(st.table, depends_on_id)
    THEN Outcome(st.table, st.gs, ErrDepNotFound, FALSE)
    ELSE LET task == get_by_id(st.table, task_id)
             e    == add_edge(st.gs,
                              GraphEdge(task_id, depends_on_id, DEPENDS_ON))
         IN  IF e.ret
             THEN Outcome(table_update(st.table,
                              [task EXCEPT !.dependencies =
                                  Append(@, depends_on_id)]).table,
                          e.gs, NoError, TRUE)
             ELSE Outcome(st.table, e.gs, NoError, FALSE)

remove_dependency(st, task_id, depends_on_id) ==
    LET e == remove_edge(st.gs, GraphEdge(task_id, depends_on_id, DEPENDS_ON))
    IN  IF e.ret
        THEN IF exists(st.table, task_id)
             THEN LET task == get_by_id(st.table, task_id)
                  IN  Outcome(table_update(st.table,
                                  [task EXCEPT !.dependencies =
                                      SelectSeq(@, LAMBDA d :
                                                    d # depends_on_id)]).table,
                              e.gs, NoError, TRUE)
             ELSE Outcome(st.table, e.gs, NoError, TRUE)
        ELSE Outcome(st.table, e.gs, NoError, FALSE)

clear_all_data(st) == Outcome(table_clear(st.table), clear(st.gs), NoError, TRUE)

RECURSIVE FetchTasks(_, _)
\* the loops "task = get_by_id(id); if task: tasks.append(task)"
FetchTasks(T, ids) ==
    IF ids = <<>> THEN <<>>
    ELSE IF exists(T, Head(ids))
         THEN <<get_by_id(T, Head(ids))>> \o FetchTasks(T, Tail(ids))
         ELSE FetchTasks(T, Tail(ids))

get_task_dependencies(st, task_id) ==
    FetchTasks(st.table, get_dependencies(st.gs, task_id))

\* variant: the topological order is not reversed
get_execution_order_unreversed(st) ==
    LET sorted == topological_sort(st.gs)
    IN  IF sorted.raised
        THEN [raised |-> TRUE, ret |-> <<>>]
        ELSE [raised |-> FALSE, ret |-> FetchTasks(st.table, sorted.ret)]

\* raised = TRUE stands for ValueError("Graph contains cycles")
get_execution_order(st) ==
    LET sorted == topological_sort(st.gs)
    IN  IF sorted.raised
        THEN [raised |-> TRUE, ret |-> <<>>]
        ELSE [raised |-> FALSE,
              ret |-> FetchTasks(st.table, Reverse(sorted.ret))]

\* status_filter = NONE: no filter
list_tasks(st, status_filter) ==
    IF status_filter # NONE
    THEN SelectSeq(st.table, LAMBDA t : t.status = status_filter)
    ELSE list_all(st.table)

IsReady(st, task) ==
    LET dependencies == get_task_dependencies(st, task.id)
    IN  \/ dependencies = <<>>
        \/ \A i \in DOMAIN dependencies : dependencies[i].status = COMPLETED

get_ready_tasks(st, status_filter) ==
    SelectSeq(list_tasks(st, status_filter), LAMBDA task : IsReady(st, task))

(***************************************************************************)
(* Task splitting models: UpdateMode, GranularityRules, TaskTemplate,      *)
(* TaskSplitRequest, SplitOperation, SplitResult                           *)
(***************************************************************************)
APPEND == "append"
OVERWRITE == "overwrite"
SELECTIVE == "selective"
CLEAR_ALL_TASKS == "clearAllTasks"
UpdateMode == {APPEND, OVERWRITE, SELECTIVE, CLEAR_ALL_TASKS}

SIMPLE == "SIMPLE"
MODERATE == "MODERATE"
COMPLEX == "COMPLEX"
EPIC == "EPIC"

\* str(task.id): the text of an identifier
IdStr(id) == "uuid-" \o ToString(id)

\* uuid.UUID(dep_ref), applied only to the text of an identifier
ParseId(dep_ref) == CHOOSE id \in Ids : IdStr(id) = dep_ref

GranularityRules(max_subtasks_per_split, max_task_name_length, min_description_length) ==
    [max_subtasks_per_split |-> max_subtasks_per_split,
     max_task_name_length   |-> max_task_name_length,
     min_description_length |-> min_description_length]

DefaultRules == GranularityRules(10, 100, 10)

validate_task_count(rules, count) ==
    1 <= count /\ count <= rules.max_subtasks_per_split

\* names and descriptions carry no surrounding blanks, so strip() keeps them
validate_task_name_length(rules, name) ==
    1 <= Len(name) /\ Len(name) <= rules.max_task_name_length

validate_description_length(rules, description) ==
    Len(description) >= rules.min_description_length

RECURSIVE validate_dependencies(_)
\* duplicates removed, first occurrences kept in order
validate_dependencies(v) ==
    IF v = <<>> THEN <<>>
    ELSE LET front == validate_dependencies(SubSeq(v, 1, Len(v) - 1))
             dep   == v[Len(v)]
         IN  IF dep \in SeqToSet(front) THEN front ELSE Append(front, dep)

\* estimated_hours = 0 stands for None
TaskTemplate(name, description, dependencies, complexity, estimated_hours) ==
    [name |-> name, description |-> description,
     dependencies |-> validate_dependencies(dependencies),
     complexity |-> complexity, estimated_hours |-> estimated_hours]

TaskSplitRequest(update_mode, task_templates, granularity_rules) ==
    [update_mode |-> update_mode, task_templates |-> task_templates,
     granularity_rules |-> granularity_rules]

\* unique names within a request
validate_task_templates(v) ==
    /\ v # <<>>
    /\ \A i, j \in DOMAIN v : v[i].name = v[j].name => i = j

validate_granularity(request) ==
    /\ validate_task_count(request.granularity_rules,
                           Len(request.task_templates))
    /\ \A i \in DOMAIN request.task_templates :
          /\ validate_task_name_length(request.granularity_rules,
                                       request.task_templates[i].name)
          /\ validate_description_length(request.granularity_rules,
                                         request.task_templates[i].description)

ErrSimpleHours == "SIMPLE tasks should be <=4 hours"
ErrModerateHours == "MODERATE tasks should be 4-8 hours"
ErrComplexHours == "COMPLEX tasks should be 8-16 hours"
ErrEpicHours == "EPIC tasks should be >16 hours (consider splitting)"

\* the error the validator of Task.estimated_hours raises, NoError if none
validate_complexity_hours_alignment(complexity, v) ==
    IF v = 0 THEN NoError
    ELSE IF complexity = SIMPLE /\ v > 4 THEN ErrSimpleHours
    ELSE IF complexity = MODERATE /\ (v <= 4 \/ v > 8) THEN ErrModerateHours
    ELSE IF complexity = COMPLEX /\ (v <= 8 \/ v > 16) THEN ErrComplexHours
    ELSE IF complexity = EPIC /\ v <= 16 THEN ErrEpicHours
    ELSE NoError

\* id: the identifier uuid4 draws for the new task
to_task(template, id) ==
    [raised |-> validate_complexity_hours_alignment(template.complexity,
                                                    template.estimated_hours),
     ret    |-> Task(id, template.name, template.description, PENDING,
                     template.complexity, template.estimated_hours, <<>>)]

SplitOperation(update_mode, tasks_before_count, tasks_after_count, tasks_added, tasks_updated, tasks_removed) ==
    [operation_type |-> "split_tasks", update_mode |-> update_mode,
     tasks_before_count |-> tasks_before_count,
     tasks_after_count |-> tasks_after_count,
     tasks_added |-> tasks_added, tasks_updated |-> tasks_updated,
     tasks_removed |-> tasks_removed]

\* operation: <<>> for None, <<op>> for a SplitOperation
SplitResult(success, created_tasks, operation, errors) ==
    [success |-> success, created_tasks |-> created_tasks,
     operation |-> operation, errors |-> errors]

(***************************************************************************)
(* DependencyResolver                                                      *)
(***************************************************************************)
\* "key in {key(task): task for task in existing_tasks}"
InIdToTask(existing_tasks, dep_ref) ==
    \E i \in DOMAIN existing_tasks : IdStr(existing_tasks[i].id) = dep_ref

InNameToTask(existing_tasks, name) ==
    \E i \in DOMAIN existing_tasks : existing_tasks[i].name = name

\* a dict comprehension keeps the last task that has the name
name_to_task(existing_tasks, name) ==
    existing_tasks[CHOOSE i \in DOMAIN existing_tasks :
                       /\ existing_tasks[i].name = name
                       /\ \A j \in DOMAIN existing_tasks :
                             existing_tasks[j].name = name => j <= i]

RECURSIVE resolved_dependencies_name_first(_, _)
\* variant: a reference is matched against the names first, then against
\* the identifiers
resolved_dependencies_name_first(dependencies, existing_tasks) ==
    IF dependencies = <<>> THEN <<>>
    ELSE LET dep_ref == Head(dependencies)
             rest == resolved_dependencies_name_first(Tail(dependencies),
                                                      existing_tasks)
         IN  IF InNameToTask(existing_tasks, dep_ref)
             THEN <<name_to_task(existing_tasks, dep_ref).id>> \o rest
             ELSE IF InIdToTask(existing_tasks, dep_ref)
             THEN <<ParseId(dep_ref)>> \o rest
             ELSE rest

RECURSIVE resolved_dependencies(_, _)
\* the loop over template.dependencies: identifier first, then name,
\* unresolvable references skipped
resolved_dependencies(dependencies, existing_tasks) ==
    IF dependencies = <<>> THEN <<>>
    ELSE LET dep_ref == Head(dependencies)
             rest == resolved_dependencies(Tail(dependencies), existing_tasks)
         IN  IF InIdToTask(existing_tasks, dep_ref)
             THEN <<ParseId(dep_ref)>> \o rest
             ELSE IF InNameToTask(existing_tasks, dep_ref)
             THEN <<name_to_task(existing_tasks, dep_ref).id>> \o rest
             ELSE rest

RECURSIVE resolve_task_dependencies(_, _, _)
\* ids: the identifiers uuid4 draws, one per template
resolve_task_dependencies(templates, existing_tasks, ids) ==
    IF templates = <<>> THEN [raised |-> NoError, ret |-> <<>>]
    ELSE LET template == Head(templates)
             task == to_task(template, Head(ids))
         IN  IF task.raised # NoError
             THEN [raised |-> task.raised, ret |-> <<>>]
             ELSE LET rest == resolve_task_dependencies(
                                  Tail(templates), existing_tasks, Tail(ids))
                  IN  IF rest.raised # NoError THEN rest
                      ELSE [raised |-> NoError,
                            ret |-> <<[task.ret EXCEPT !.dependencies =
                                         resolved_dependencies(
                                             template.dependencies,
                                             existing_tasks)]>> \o rest.ret]

\* graph[dep] lists the names of the templates that depend on dep
TemplateGraph(templates) ==
    [node \in {templates[i].name : i \in DOMAIN templates}
              \cup UNION {SeqToSet(templates[i].dependencies) :
                              i \in DOMAIN templates} |->
        LET users == SelectSeq(templates,
                               LAMBDA t : node \in SeqToSet(t.dependencies))
        IN  [i \in DOMAIN users |-> users[i].name]]

RECURSIVE template_has_cycle(_, _, _, _)
\* the nested has_cycle(node) with its visited set and recursion stack,
\* applied in turn to the nodes of nodes_left (the neighbors of one node,
\* or the template names of the outer loop)
template_has_cycle(tgraph, nodes_left, visited, rec_stack) ==
    IF nodes_left = <<>> THEN [ret |-> FALSE, visited |-> visited]
    ELSE LET node == Head(nodes_left)
         IN  IF node \in rec_stack THEN [ret |-> TRUE, visited |-> visited]
             ELSE LET below ==
                          IF node \in visited
                          THEN [ret |-> FALSE, visited |-> visited]
                          ELSE template_has_cycle(tgraph, tgraph[node],
                                                  visited \cup {node},
                                                  rec_stack \cup {node})
                  IN  IF below.ret THEN below
                      ELSE template_has_cycle(tgraph, Tail(nodes_left),
                                              below.visited, rec_stack)

\* variant: only a template that names itself counts as a cycle
detect_circular_dependencies_self_only(templates) ==
    \E i \in DOMAIN templates :
        templates[i].name \in SeqToSet(templates[i].dependencies)

\* "for template in templates: if name not in visited: if has_cycle(name)"
detect_circular_dependencies(templates) ==
    template_has_cycle(TemplateGraph(templates),
                       [i \in DOMAIN templates |-> templates[i].name],
                       {}, {}).ret

\* the names in use, in alphabetical order
Alphabet == <<"a", "c", "task-b">>

\* sorted(names) for a set of names
sorted(names) == SelectSeq(Alphabet, LAMBDA n : n \in names)

\* the (template name, dependency) pairs counted by the loop that builds
\* graph and in_degree: dependencies within the task set only
TemplateEdges(templates) ==
    {p \in (DOMAIN templates) \X {templates[i].name : i \in DOMAIN templates} :
        p[2] \in SeqToSet(templates[p[1]].dependencies)}

RECURSIVE VisitNeighbors(_, _, _)
\* "for neighbor in graph[current]: in_degree[neighbor] -= 1;
\*  if in_degree[neighbor] == 0: queue.append(neighbor)"
VisitNeighbors(neighbors, in_degree, queue) ==
    IF neighbors = <<>> THEN [in_degree |-> in_degree, queue |-> queue]
    ELSE LET neighbor == Head(neighbors)
             d == in_degree[neighbor] - 1
         IN  VisitNeighbors(Tail(neighbors),
                            [in_degree EXCEPT ![neighbor] = d],
                            IF d = 0 THEN Append(queue, neighbor) ELSE queue)

RECURSIVE Kahn(_, _, _, _)
\* "while queue: current = queue.popleft(); result.append(current); ..."
Kahn(tgraph, in_degree, queue, result) ==
    IF queue = <<>> THEN result
    ELSE With([v \in {VisitNeighbors(tgraph[Head(queue)], in_degree,
                                     Tail(queue))} |->
             Kahn(tgraph, v.in_degree, v.queue, Append(result, Head(queue)))])

\* in_degree after the two loops over the templates
InDegree(templates) ==
    [name \in {templates[i].name : i \in DOMAIN templates} |->
        Cardinality({p \in TemplateEdges(templates) :
                        templates[p[1]].name = name})]

\* variant: always the alphabetical order
DependencyResolver_topological_sort_alphabetical(templates, queue) ==
    sorted({templates[i].name : i \in DOMAIN templates})

\* DependencyResolver.topological_sort; queue: the names of in-degree zero in
\* the order the iteration over the set all_tasks yields them
DependencyResolver_topological_sort(templates, queue) ==
    LET all_tasks == {templates[i].name : i \in DOMAIN templates}
        tgraph == [dep \in all_tasks |->
                     LET users == SelectSeq(
                             [i \in DOMAIN templates |-> i],
                             LAMBDA i : <<i, dep>> \in TemplateEdges(templates))
                     IN  [k \in DOMAIN users |-> templates[users[k]].name]]
        result == Kahn(tgraph, InDegree(templates), queue, <<>>)
    IN  IF Len(result) # Cardinality(all_tasks)
        THEN sorted(all_tasks)
        ELSE result

(***************************************************************************)
(* TaskSplittingService over st = [table |-> rows, gs |-> graph storage]   *)
(***************************************************************************)
\* the coordinator's listing of every task
get_all_tasks(st) == list_tasks(st, NONE)

\* the coordinator's removal of every task
clear_all_tasks(st) == clear_all_data(st)

Progress(T, gs, raised, created_tasks, count) ==
    [table |-> T, gs |-> gs, raised |-> raised,
     created_tasks |-> created_tasks, count |-> count]

RECURSIVE CreateEach(_, _, _)
\* "for task in resolved_tasks: created_tasks.append(create_task(task))"
CreateEach(st, resolved_tasks, created_tasks) ==
    IF resolved_tasks = <<>>
    THEN Progress(st.table, st.gs, NoError, created_tasks, 0)
    ELSE With([c \in {create_task(st, Head(resolved_tasks))} |->
             IF c.raised # NoError
             THEN Progress(c.table, c.gs, c.raised, created_tasks, 0)
             ELSE CreateEach([table |-> c.table, gs |-> c.gs],
                             Tail(resolved_tasks),
                             Append(created_tasks, Head(resolved_tasks)))])

_create_tasks_from_templates(st, templates, existing_tasks, ids) ==
    With([resolved_tasks \in
              {resolve_task_dependencies(templates, existing_tasks, ids)} |->
             IF resolved_tasks.raised # NoError
             THEN Progress(st.table, st.gs, resolved_tasks.raised, <<>>, 0)
             ELSE CreateEach(st, resolved_tasks.ret, <<>>)])

\* existing_task after the field assignments of the loop below
AssignFields(existing_task, template, dependencies) ==
    [existing_task EXCEPT !.description = template.description,
                          !.complexity = template.complexity,
                          !.estimated_hours = template.estimated_hours,
                          !.dependencies = dependencies]

RECURSIVE SelectiveEach(_, _, _, _, _, _)
\* the loop of _selective_update_tasks; the field assignments validate
\* (validate_assignment), estimated_hours against the complexity just set
SelectiveEach(st, templates, existing_tasks, ids, created_tasks, updated_count) ==
    IF templates = <<>>
    THEN Progress(st.table, st.gs, NoError, created_tasks, updated_count)
    ELSE LET template == Head(templates)
         IN  IF InNameToTask(existing_tasks, template.name)
             THEN LET existing_task ==
                          name_to_task(existing_tasks, template.name)
                      assigned ==
                          validate_complexity_hours_alignment(
                              template.complexity, template.estimated_hours)
                      \* the identifier of the converted template is dropped
                      resolved_deps ==
                          resolve_task_dependencies(
                              <<template>>, existing_tasks,
                              <<existing_task.id>>)
                  IN  IF assigned # NoError
                      THEN Progress(st.table, st.gs, assigned,
                                    created_tasks, updated_count)
                      ELSE IF resolved_deps.raised # NoError
                      THEN Progress(st.table, st.gs, resolved_deps.raised,
                                    created_tasks, updated_count)
                      ELSE With([updated \in {AssignFields(
                                    existing_task, template,
                                    resolved_deps.ret[1].dependencies)} |->
                           With([u \in {update_task(st, updated)} |->
                               IF u.raised # NoError
                               THEN Progress(u.table, u.gs, u.raised,
                                             created_tasks, updated_count)
                               ELSE SelectiveEach(
                                        [table |-> u.table, gs |-> u.gs],
                                        Tail(templates), existing_tasks, ids,
                                        Append(created_tasks, updated),
                                        updated_count + 1)])])
             ELSE With([resolved_tasks \in {resolve_task_dependencies(
                           <<template>>, existing_tasks, ids)} |->
                      IF resolved_tasks.raised # NoError
                      THEN Progress(st.table, st.gs, resolved_tasks.raised,
                                    created_tasks, updated_count)
                      ELSE With([c \in {create_task(st, resolved_tasks.ret[1])} |->
                               IF c.raised # NoError
                               THEN Progress(c.table, c.gs, c.raised,
                                             created_tasks, updated_count)
                               ELSE SelectiveEach(
                                        [table |-> c.table, gs |-> c.gs],
                                        Tail(templates), existing_tasks,
                                        Tail(ids),
                                        Append(created_tasks,
                                               resolved_tasks.ret[1]),
                                        updated_count)])])

_selective_update_tasks(st, templates, existing_tasks, ids) ==
    SelectiveEach(st, templates, existing_tasks, ids, <<>>, 0)

\* variant: no task is deleted
DeleteUnfinished_none(st, existing_tasks, tasks_removed) ==
    Progress(st.table, st.gs, NoError, <<>>, tasks_removed)

RECURSIVE DeleteUnfinished(_, _, _)
\* "for task in existing_tasks: if task.status != COMPLETED:
\*      delete_task(task.id); tasks_removed += 1"
DeleteUnfinished(st, existing_tasks, tasks_removed) ==
    IF existing_tasks = <<>>
    THEN Progress(st.table, st.gs, NoError, <<>>, tasks_removed)
    ELSE IF Head(existing_tasks).status # COMPLETED
    THEN With([d \in {delete_task(st, Head(existing_tasks).id)} |->
             DeleteUnfinished([table |-> d.table, gs |-> d.gs],
                              Tail(existing_tasks), tasks_removed + 1)])
    ELSE DeleteUnfinished(st, Tail(existing_tasks), tasks_removed)

ErrGranularity ==
    "Request violates granularity rules - too many tasks or invalid task constraints"
ErrCircular == "Circular dependencies detected in task templates"
ErrNameLength(i) == "Task " \o ToString(i) \o ": Name exceeds maximum length"
ErrDescriptionLength(i) == "Task " \o ToString(i) \o ": Description too short"

RECURSIVE TemplateErrors(_, _)
\* the errors of templates i.. of the request, in order
TemplateErrors(request, i) ==
    IF i > Len(request.task_templates) THEN <<>>
    ELSE LET template == request.task_templates[i]
         IN  (IF ~validate_task_name_length(request.granularity_rules,
                                            template.name)
              THEN <<ErrNameLength(i)>> ELSE <<>>)
             \o (IF ~validate_description_length(request.granularity_rules,
                                                 template.description)
                 THEN <<ErrDescriptionLength(i)>> ELSE <<>>)
             \o TemplateErrors(request, i + 1)

\* variant: the templates are not checked for circular dependencies
validate_split_request_no_cycle_check(request) ==
    LET errors ==
            (IF ~validate_granularity(request)
             THEN <<ErrGranularity>> ELSE <<>>)
            \o TemplateErrors(request, 1)
    IN  [is_valid |-> errors = <<>>, errors |-> errors]

validate_split_request(request) ==
    LET errors ==
            (IF ~validate_granularity(request)
             THEN <<ErrGranularity>> ELSE <<>>)
            \o (IF detect_circular_dependencies(request.task_templates)
                THEN <<ErrCircular>> ELSE <<>>)
            \o TemplateErrors(request, 1)
    IN  [is_valid |-> errors = <<>>, errors |-> errors]

\* variant: the except branch returns no error message
SplitOutcome_silent(request, p, tasks_before_count, tasks_updated, tasks_removed) ==
    [table |-> p.table, gs |-> p.gs,
     ret |->
        IF p.raised # NoError
        THEN SplitResult(FALSE, <<>>, <<>>, <<>>)
        ELSE SplitResult(
                 TRUE, p.created_tasks,
                 <<SplitOperation(
                       request.update_mode, tasks_before_count,
                       Len(get_all_tasks([table |-> p.table, gs |-> p.gs])),
                       Len(p.created_tasks), tasks_updated, tasks_removed)>>,
                 <<>>)]

\* the result a finished strategy is turned into: the operation record on
\* return, the error of the except branch on raise
SplitOutcome(request, p, tasks_before_count, tasks_updated, tasks_removed) ==
    [table |-> p.table, gs |-> p.gs,
     ret |->
        IF p.raised # NoError
        THEN SplitResult(FALSE, <<>>, <<>>, <<p.raised>>)
        ELSE SplitResult(
                 TRUE, p.created_tasks,
                 <<SplitOperation(
                       request.update_mode, tasks_before_count,
                       Len(get_all_tasks([table |-> p.table, gs |-> p.gs])),
                       Len(p.created_tasks), tasks_updated, tasks_removed)>>,
                 <<>>)]

\* ids: the identifiers uuid4 draws for the tasks of the templates
split_tasks(st, request, ids) ==
    With([validation \in {validate_split_request(request)} |->
    With([existing_tasks \in {get_all_tasks(st)} |->
    LET tasks_before_count == Len(existing_tasks)
    IN  IF ~validation.is_valid
        THEN [table |-> st.table, gs |-> st.gs,
              ret |-> SplitResult(FALSE, <<>>, <<>>, validation.errors)]
        ELSE IF request.update_mode = CLEAR_ALL_TASKS
        THEN With([cleared \in {clear_all_tasks(st)} |->
             With([p \in {_create_tasks_from_templates(
                      [table |-> cleared.table, gs |-> cleared.gs],
                      request.task_templates, <<>>, ids)} |->
                      SplitOutcome(request, p, tasks_before_count, 0,
                                   tasks_before_count)])])
        ELSE IF request.update_mode = APPEND
        THEN With([p \in {_create_tasks_from_templates(
                      st, request.task_templates, existing_tasks, ids)} |->
                      SplitOutcome(request, p, tasks_before_count, 0, 0)])
        ELSE IF request.update_mode = SELECTIVE
        THEN With([p \in {_selective_update_tasks(
                      st, request.task_templates, existing_tasks, ids)} |->
                      SplitOutcome(request, p, tasks_before_count,
                                   p.count, 0)])
        ELSE With([completed_tasks \in {SelectSeq(existing_tasks,
                            LAMBDA task : task.status = COMPLETED)} |->
             With([deleted \in {DeleteUnfinished(st, existing_tasks, 0)} |->
             With([p \in {_create_tasks_from_templates(
                      [table |-> deleted.table, gs |-> deleted.gs],
                      request.task_templates, completed_tasks, ids)} |->
                      SplitOutcome(request, p, tasks_before_count, 0,
                                   deleted.count)])])])])])

(***************************************************************************)
(* State machine                                                           *)
(***************************************************************************)
gstore == [graph |-> graph, nodes |-> nodes]

service == [table |-> table, gs |-> gstore]

\* split: <<>>, or <<[request, result]>> for a split_tasks call
\* the event loop: the coroutines scheduled on it (asyncio tasks) and the one
\* that is executing, 0 when the loop is free to resume any of them
NoCoroutines == [tasks |-> <<>>, running |-> 0]

Call(op, arg, raised, ret) ==
    [op |-> op, arg |-> arg, raised |-> raised, ret |-> ret, split |-> <<>>]

Init ==
    /\ graph = NxEmpty
    /\ nodes = EmptyNodes
    /\ table = <<>>
    /\ last = Call("init", <<>>, NoError, TRUE)
    /\ ops = 0
    /\ loop = NoCoroutines

\* ---- graph store driven directly ----
NodeDatas == {[name |-> "a", status |-> PENDING]}

AddNode ==
    \E id \in Ids, data \in NodeDatas :
        \E r \in {add_node(gstore, GraphNode(id, data))} :
            /\ graph' = r.gs.graph
            /\ nodes' = r.gs.nodes
            /\ UNCHANGED loop
            /\ last' = Call("add_node", <<id>>, NoError, r.ret)
            /\ UNCHANGED <<table, ops>>

AddEdge ==
    \E f \in Ids, t \in Ids, rel \in Relationships :
        \E r \in {add_edge(gstore, GraphEdge(f, t, rel))} :
            /\ graph' = r.gs.graph
            /\ nodes' = r.gs.nodes
            /\ UNCHANGED loop
            /\ last' = Call("add_edge", <<f, t>>, NoError, r.ret)
            /\ UNCHANGED <<table, ops>>

RemoveNode ==
    \E id \in Ids :
        \E r \in {remove_node(gstore, id)} :
            /\ graph' = r.gs.graph
            /\ nodes' = r.gs.nodes
            /\ UNCHANGED loop
            /\ last' = Call("remove_node", <<id>>, NoError, r.ret)
            /\ UNCHANGED <<table, ops>>

RemoveEdge ==
    \E f \in Ids, t \in Ids, rel \in Relationships :
        \E r \in {remove_edge(gstore, GraphEdge(f, t, rel))} :
            /\ graph' = r.gs.graph
            /\ nodes' = r.gs.nodes
            /\ UNCHANGED loop
            /\ last' = Call("remove_edge", <<f, t>>, NoError, r.ret)
            /\ UNCHANGED <<table, ops>>

Clear ==
    /\ graph' = clear(gstore).graph
    /\ nodes' = clear(gstore).nodes
    /\ UNCHANGED loop
    /\ last' = Call("clear", <<>>, NoError, TRUE)
    /\ UNCHANGED <<table, ops>>

NextGraph == AddNode \/ AddEdge \/ RemoveNode \/ RemoveEdge \/ Clear

SpecGraph == Init /\ [][NextGraph]_vars

\* ---- task coordinator ----
TaskNames == {"a"}
Descriptions == {"0123456789"}
Statuses == {PENDING, COMPLETED}

Min(S) == CHOOSE x \in S : \A y \in S : x <= y

\* identifiers the stores mention: rows, nodes and dependency entries
KnownIds ==
    TableIds(table) \cup DOMAIN nodes \cup NxNodes(graph)
        \cup UNION {SeqToSet(table[i].dependencies) : i \in DOMAIN table}

\* identifiers are opaque: the identifiers no store mentions are
\* interchangeable, so a new task takes the least of them
NewIds == IF Ids \ KnownIds = {} THEN {} ELSE {Min(Ids \ KnownIds)}

TaskInputs(ids) ==
    {Task(id, n, d, s, NONE, 0, deps) :
        id \in ids, n \in TaskNames, d \in Descriptions, s \in Statuses,
        deps \in SeqsUpTo(Ids, MaxDeps)}

CreateTask ==
    /\ ops < MaxOps
    /\ \E task \in TaskInputs(KnownIds \cup NewIds) :
          \E r \in {create_task(service, task)} :
              /\ ops' = ops + 1
              /\ table' = r.table
              /\ graph' = r.gs.graph
              /\ nodes' = r.gs.nodes
              /\ UNCHANGED loop
              /\ last' = Call("create_task", <<task.id>>, r.raised, r.ret)

UpdateTask ==
    /\ ops < MaxOps
    /\ \E task \in TaskInputs(KnownIds \cup NewIds) :
          \E r \in {update_task(service, task)} :
              /\ ops' = ops + 1
              /\ table' = r.table
              /\ graph' = r.gs.graph
              /\ nodes' = r.gs.nodes
              /\ UNCHANGED loop
              /\ last' = Call("update_task", <<task.id>>, r.raised, r.ret)

DeleteTask ==
    /\ ops < MaxOps
    /\ \E id \in Ids :
          \E r \in {delete_task(service, id)} :
              /\ ops' = ops + 1
              /\ table' = r.table
              /\ graph' = r.gs.graph
              /\ nodes' = r.gs.nodes
              /\ UNCHANGED loop
              /\ last' = Call("delete_task", <<id>>, r.raised, r.ret)

AddDependency ==
    /\ ops < MaxOps
    /\ \E t \in Ids, d \in Ids :
          /\ exists(table, t)
                => Len(get_by_id(table, t).dependencies) < MaxDeps
          /\ \E r \in {add_dependency(service, t, d)} :
              /\ ops' = ops + 1
              /\ table' = r.table
              /\ graph' = r.gs.graph
              /\ nodes' = r.gs.nodes
              /\ UNCHANGED loop
              /\ last' = Call("add_dependency", <<t, d>>, r.raised, r.ret)

RemoveDependency ==
    /\ ops < MaxOps
    /\ \E t \in Ids, d \in Ids :
          \E r \in {remove_dependency(service, t, d)} :
              /\ ops' = ops + 1
              /\ table' = r.table
              /\ graph' = r.gs.graph
              /\ nodes' = r.gs.nodes
              /\ UNCHANGED loop
              /\ last' = Call("remove_dependency", <<t, d>>, r.raised, r.ret)

ClearAllData ==
    /\ ops < MaxOps
    /\ \E r \in {clear_all_data(service)} :
        /\ ops' = ops + 1
        /\ table' = r.table
        /\ graph' = r.gs.graph
        /\ nodes' = r.gs.nodes
        /\ UNCHANGED loop
        /\ last' = Call("clear_all_data", <<>>, r.raised, r.ret)

Next ==
    \/ CreateTask
    \/ UpdateTask
    \/ DeleteTask
    \/ AddDependency
    \/ RemoveDependency
    \/ ClearAllData

Spec == Init /\ [][Next]_vars

\* behaviours in which every coordinator call returns without raising
Returned == last'.raised = NoError

NextSuccessful ==
    \/ CreateTask /\ Returned
    \/ UpdateTask /\ Returned
    \/ DeleteTask /\ Returned
    \/ AddDependency /\ Returned
    \/ RemoveDependency /\ Returned
    \/ ClearAllData /\ Returned

SpecSuccessful == Init /\ [][NextSuccessful]_vars

\* ---- task splitting engine ----
TemplateNames == {"a", "task-b"}
TemplateDescriptions == {"0123456789ab"}

\* complexity and estimated hours of a template: unset, or a pair the
\* template accepts and the task model rejects
Estimates ==
    {[complexity |-> NONE, estimated_hours |-> 0],
     [complexity |-> SIMPLE, estimated_hours |-> 5]}

\* what a template may name as a dependency: a name, or the text of the
\* identifier of a stored task
DepRefs == TemplateNames \cup {IdStr(id) : id \in TableIds(table)}

Templates ==
    {TaskTemplate(n, d, deps, e.complexity, e.estimated_hours) :
        n \in TemplateNames, d \in TemplateDescriptions,
        deps \in SeqsUpTo(DepRefs, MaxTemplateDeps), e \in Estimates}

\* the default rules, and rules that differ from them in one limit: one
\* template at most, names of at most five characters, descriptions of at
\* least twenty
GranularityRuleSets ==
    {DefaultRules, GranularityRules(1, 100, 10), GranularityRules(10, 5, 10),
     GranularityRules(10, 100, 20)}

Requests ==
    {TaskSplitRequest(mode, templates, rules) :
        mode \in UpdateMode,
        templates \in {b \in SeqsUpTo(Templates, MaxTemplates) :
                          validate_task_templates(b)},
        rules \in GranularityRuleSets}

RECURSIVE Ascending(_)
Ascending(S) == IF S = {} THEN <<>> ELSE <<Min(S)>> \o Ascending(S \ {Min(S)})

\* identifiers are opaque: the tasks of a split take the identifiers no
\* store mentions, in ascending order
NewIdSeq == Ascending(Ids \ KnownIds)

\* how many identifiers of NewIdSeq a request uses
IdsDrawn(request) ==
    IF request.update_mode = SELECTIVE
    THEN Cardinality({i \in DOMAIN request.task_templates :
                         ~InNameToTask(table, request.task_templates[i].name)})
    ELSE Len(request.task_templates)

\* a behaviour ends with its split: ops' = MaxOps
SplitTasks ==
    /\ ops < MaxOps
    /\ \E request \in Requests :
          /\ IdsDrawn(request) <= Len(NewIdSeq)
          /\ \E r \in {split_tasks(service, request, NewIdSeq)} :
                /\ ops' = MaxOps
                /\ table' = r.table
                /\ graph' = r.gs.graph
                /\ nodes' = r.gs.nodes
                /\ UNCHANGED loop
                /\ last' = [op |-> "split_tasks", arg |-> <<>>,
                            raised |-> NoError, ret |-> r.ret.success,
                            split |-> <<[request |-> request,
                                         result |-> r.ret]>>]

NextSplit ==
    \/ CreateTask
    \/ DeleteTask
    \/ SplitTasks

SpecSplit == Init /\ [][NextSplit]_vars

(***************************************************************************)
(* Properties                                                              *)
(***************************************************************************)
Index(s, x) == CHOOSE i \in DOMAIN s : s[i] = x

IdsOf(tasks) == [i \in DOMAIN tasks |-> tasks[i].id]

NoDuplicates(s) == \A i, j \in DOMAIN s : s[i] = s[j] => i = j

Cyclic(G) ==
    \E n \in NxNodes(G) :
        \E path \in UNION {[1..k -> NxNodes(G)] : k \in 2..(Len(G.order) + 1)} :
            /\ path[1] = n
            /\ path[Len(path)] = n
            /\ \A i \in 1..(Len(path) - 1) : NxHasEdge(G, path[i], path[i + 1])

\* C1: starting from an empty graph store, after any sequence of add_node,
\* add_edge, remove_node, remove_edge and clear calls, has_cycle() returns
\* false (and the graph indeed has no directed cycle).
C1_Acyclic == ~has_cycle(gstore) /\ ~Cyclic(graph)

\* an add_edge between two present, distinct nodes was rejected as closing a
\* cycle while the graph holds edges
C1_Witness ==
    /\ last.op = "add_edge"
    /\ ~last.ret
    /\ last.arg[1] # last.arg[2]
    /\ {last.arg[1], last.arg[2]} \subseteq DOMAIN nodes
    /\ Cardinality(NxEdges(graph)) >= 2

\* C2: after any sequence of create_task, update_task, delete_task,
\* add_dependency, remove_dependency and clear_all_data calls, including
\* calls that raise, the task ids of the record store are exactly the node
\* ids of the graph store.
C2_SameIds ==
    /\ TableIds(table) = DOMAIN nodes
    /\ TableIds(table) = NxNodes(graph)

\* a create_task or update_task call raised after both stores were written
C2_Witness ==
    /\ last.op \in {"create_task", "update_task"}
    /\ last.raised \in {ErrDepNotFound, ErrCycle}
    /\ Len(table) >= 2

\* C3: after any sequence of successful coordinator calls, d is in t's
\* persisted dependency list if and only if the graph has the edge t -> d.
C3_ListMatchesEdges ==
    \A i \in DOMAIN table : \A d \in Ids :
        d \in SeqToSet(table[i].dependencies)
            <=> NxHasEdge(graph, table[i].id, d)

LabelledEdges(gs) == get_all_edges(gs)

\* C4: whenever add_edge returns false, the node set, the edge set and the
\* edge relationship labels are the same after the call as before it.
C4_RejectedEdgeNoChange ==
    [][(last'.op = "add_edge" /\ ~last'.ret)
          => /\ DOMAIN nodes' = DOMAIN nodes
             /\ NxNodes(graph') = NxNodes(graph)
             /\ LabelledEdges(gstore') = LabelledEdges(gstore)]_vars

\* add_edge rejected an edge that would close a cycle of length >= 2
C4_Witness ==
    /\ last.op = "add_edge"
    /\ ~last.ret
    /\ last.arg[1] # last.arg[2]
    /\ {last.arg[1], last.arg[2]} \subseteq DOMAIN nodes
    /\ NxHasEdge(graph, last.arg[2], last.arg[1])

\* C5: get_execution_order() returns every stored task exactly once, and
\* for every dependency edge t -> d the task d comes before the task t.
C5_ExecutionOrder ==
    LET r     == get_execution_order(service)
        order == IdsOf(r.ret)
    IN  /\ ~r.raised
        /\ SeqToSet(order) = TableIds(table)
        /\ NoDuplicates(order)
        /\ \A p \in NxEdges(graph) :
              /\ {p[1], p[2]} \subseteq SeqToSet(order)
              /\ Index(order, p[2]) < Index(order, p[1])

\* three tasks in a dependency chain
C5_Witness ==
    \E a, b, c \in Ids :
        /\ Cardinality({a, b, c}) = 3
        /\ NxHasEdge(graph, a, b)
        /\ NxHasEdge(graph, b, c)
        /\ Len(table) = 3

Row(T, id) == get_by_id(T, id)

PersistedDeps(T, id) == SeqToSet(Row(T, id).dependencies)

\* C6: with no status filter, a task whose persisted dependency list is D is
\* returned by get_ready_tasks() if and only if D is empty or every task in
\* D has status COMPLETED (entries of D without a record are not counted
\* against the task).
C6_ReadyIffDepsCompleted ==
    LET ready == SeqToSet(IdsOf(get_ready_tasks(service, NONE)))
    IN  \A i \in DOMAIN table :
            table[i].id \in ready
                <=> \A d \in SeqToSet(table[i].dependencies) :
                        exists(table, d) => Row(table, d).status = COMPLETED

\* t is reachable from b along one or more edges of G
Reaches(G, b, t) ==
    \E path \in UNION {[1..k -> NxNodes(G)] : k \in 2..(Len(G.order) + 1)} :
        /\ path[1] = b
        /\ path[Len(path)] = t
        /\ \A i \in 1..(Len(path) - 1) : NxHasEdge(G, path[i], path[i + 1])

\* the update_task call just made gave task t a dependency list holding
\* another task b from which t was reachable before the call
CycleClosingUpdate ==
    /\ last'.op = "update_task"
    /\ exists(table, last'.arg[1])
    /\ \E b \in PersistedDeps(table', last'.arg[1]) :
          /\ b # last'.arg[1]
          /\ b \in NxNodes(graph)
          /\ Reaches(graph, b, last'.arg[1])

\* C7: update_task(t) whose dependency list would close a cycle with
\* dependencies held by other tasks fails with an error; it never returns
\* successfully.
C7_CycleClosingUpdateFails ==
    [][CycleClosingUpdate => last'.raised # NoError]_vars

\* the update_task call just made returned and left the dependency list of
\* its task as it was
FieldOnlyUpdate ==
    /\ last'.op = "update_task"
    /\ last'.raised = NoError
    /\ exists(table, last'.arg[1])
    /\ Row(table', last'.arg[1]).dependencies
          = Row(table, last'.arg[1]).dependencies

\* C8: update_task(t) that changes only non-dependency fields leaves the set
\* of graph edges unchanged: every edge x -> t is still present and the edge
\* count is the same.
C8_FieldUpdateKeepsEdges ==
    [][FieldOnlyUpdate
          => /\ NxEdges(graph') = NxEdges(graph)
             /\ Cardinality(NxEdges(graph')) = Cardinality(NxEdges(graph))]_vars

\* the create_task call just made was for a task that had no record before
CreateOfNewTask ==
    /\ last'.op = "create_task"
    /\ ~exists(table, last'.arg[1])

\* C9: create_task(t) where some id in t's dependency list is not in the
\* record store fails with an error (a create that returns has every
\* dependency in the record store), and after the failure t is absent from
\* the record store, has no graph node, and no edge from t exists.
C9_FailedCreateLeavesNothing ==
    [][CreateOfNewTask
          => /\ last'.raised = NoError
                  => PersistedDeps(table', last'.arg[1])
                         \subseteq TableIds(table)
             /\ last'.raised = ErrDepNotFound
                  => /\ ~exists(table', last'.arg[1])
                     /\ last'.arg[1] \notin DOMAIN nodes'
                     /\ last'.arg[1] \notin NxNodes(graph')
                     /\ \A p \in NxEdges(graph') : p[1] # last'.arg[1]]_vars


\* the split_tasks call of a step and the result it returned
SplitCall == last'.split[1]

FailedSplit ==
    /\ last'.op = "split_tasks"
    /\ ~SplitCall.result.success

\* C10: in every update mode, whenever split_tasks returns a result with
\* success = false, the set of task records and the dependency graph
\* (nodes, edges and their labels) are the same as before the call.
C10_FailedSplitChangesNothing ==
    [][FailedSplit
          => /\ SeqToSet(table') = SeqToSet(table)
             /\ DOMAIN nodes' = DOMAIN nodes
             /\ NxNodes(graph') = NxNodes(graph)
             /\ LabelledEdges(gstore') = LabelledEdges(gstore)]_vars

\* the templates of the request whose name x depends on, by name
DependsOnNames(templates, x) ==
    UNION {SeqToSet(templates[i].dependencies) :
              i \in {j \in DOMAIN templates : templates[j].name = x}}

RECURSIVE NamesWithin(_, _, _)
\* the names reached from the names of S in one to k dependency steps
NamesWithin(templates, S, k) ==
    IF k = 0 THEN {}
    ELSE LET next == UNION {DependsOnNames(templates, x) : x \in S}
         IN  next \cup NamesWithin(templates, next, k - 1)

\* some template depends on itself through the dependencies of the batch
CircularTemplates(templates) ==
    \E i \in DOMAIN templates :
        templates[i].name
            \in NamesWithin(templates, {templates[i].name}, Len(templates))

\* more templates than the rules admit, a name or a description whose length
\* is out of the rules' bounds, or a circular dependency among the templates
InvalidRequest(request) ==
    \/ Len(request.task_templates)
           > request.granularity_rules.max_subtasks_per_split
    \/ \E i \in DOMAIN request.task_templates :
          \/ Len(request.task_templates[i].name)
                 > request.granularity_rules.max_task_name_length
          \/ Len(request.task_templates[i].description)
                 < request.granularity_rules.min_description_length
    \/ CircularTemplates(request.task_templates)

\* C11: in every mode, a split request with more templates than
\* max_subtasks_per_split, with a template whose name or description length
\* is out of bounds, or with a circular dependency among its templates
\* returns success = false with a non-empty error list; the call creates,
\* updates, deletes and clears nothing, and the task count is the same
\* before and after it.
C11_InvalidRequestRejected ==
    [][(last'.op = "split_tasks" /\ InvalidRequest(SplitCall.request))
          => /\ ~SplitCall.result.success
             /\ SplitCall.result.errors # <<>>
             /\ SplitCall.result.created_tasks = <<>>
             /\ table' = table
             /\ graph' = graph
             /\ nodes' = nodes
             /\ Len(get_all_tasks(service')) = Len(get_all_tasks(service))]_vars

\* a request whose only fault is the circular dependency of its two
\* templates was rejected on a store that holds a task
C11_Witness ==
    /\ last.op = "split_tasks"
    /\ table # <<>>
    /\ Len(last.split[1].request.task_templates) = 2
    /\ last.split[1].request.granularity_rules = DefaultRules
    /\ CircularTemplates(last.split[1].request.task_templates)
    /\ ~last.split[1].result.success
    /\ last.split[1].result.errors = <<ErrCircular>>

\* the successful split_tasks call of a step
SuccessfulSplit ==
    /\ last'.op = "split_tasks"
    /\ SplitCall.result.success

\* template j of the batch names template i, which precedes it, as a
\* dependency
NamesEarlier(templates, i, j) ==
    /\ i < j
    /\ templates[i].name \in SeqToSet(templates[j].dependencies)

\* C12: in a successful split of any mode, when a template lists as a
\* dependency the name of a template earlier in the same batch, the task of
\* the later template has the task of the earlier one in its dependency list
\* and the graph has the edge from the later task to the earlier one.
C12_BatchDependencyResolved ==
    [][SuccessfulSplit
          => \A i, j \in DOMAIN SplitCall.request.task_templates :
                NamesEarlier(SplitCall.request.task_templates, i, j)
                    => LET t1 == SplitCall.result.created_tasks[i]
                           t2 == SplitCall.result.created_tasks[j]
                       IN  /\ exists(table', t2.id)
                           /\ t1.id \in PersistedDeps(table', t2.id)
                           /\ NxHasEdge(graph', t2.id, t1.id)]_vars

\* the templates of the request whose name an existing task has
MatchedTemplates(request, existing_tasks) ==
    {i \in DOMAIN request.task_templates :
        InNameToTask(existing_tasks, request.task_templates[i].name)}

\* C13: a successful SELECTIVE split reports as tasks_updated the number of
\* templates whose name matches an existing task and as tasks_added the
\* number of templates that match none, and afterwards the description of
\* each matched task is the description of its template.
C13_SelectiveCounts ==
    [][(SuccessfulSplit /\ SplitCall.request.update_mode = SELECTIVE)
          => LET request == SplitCall.request
                 operation == SplitCall.result.operation[1]
                 matched == MatchedTemplates(request, table)
             IN  /\ operation.tasks_updated = Cardinality(matched)
                 /\ operation.tasks_added
                        = Len(request.task_templates) - Cardinality(matched)
                 /\ \A i \in matched :
                       LET template == request.task_templates[i]
                           task == name_to_task(table, template.name)
                       IN  /\ exists(table', task.id)
                           /\ Row(table', task.id).description
                                  = template.description]_vars

\* no edge of the graph store has id as an endpoint
NoEdgeTouches(gs, id) ==
    \A edge \in LabelledEdges(gs) : edge.from_id # id /\ edge.to_id # id

\* id is in neither store
Absent(T, gs, id) ==
    /\ ~exists(T, id)
    /\ id \notin NxNodes(gs.graph)
    /\ id \notin DOMAIN gs.nodes
    /\ NoEdgeTouches(gs, id)

\* C14: after a successful OVERWRITE split every task that was COMPLETED
\* before the call still exists with all its fields unchanged, every task
\* that had another status is absent from the record store and from the
\* graph, and a task exists for every supplied template.
C14_OverwriteKeepsCompleted ==
    [][(SuccessfulSplit /\ SplitCall.request.update_mode = OVERWRITE)
          => /\ \A k \in DOMAIN table :
                   IF table[k].status = COMPLETED
                   THEN /\ exists(table', table[k].id)
                        /\ Row(table', table[k].id) = table[k]
                   ELSE Absent(table', gstore', table[k].id)
             /\ \A i \in DOMAIN SplitCall.request.task_templates :
                   LET template == SplitCall.request.task_templates[i]
                       task == SplitCall.result.created_tasks[i]
                   IN  /\ task.name = template.name
                       /\ task.description = template.description
                       /\ ~exists(table, task.id)
                       /\ exists(table', task.id)
                       /\ Row(table', task.id).name = template.name
                       /\ task.id \in NxNodes(graph')]_vars

\* an OVERWRITE split succeeded on a store that held a COMPLETED task and a
\* task of another status
C14_Witness ==
    /\ last.op = "split_tasks"
    /\ last.split[1].request.update_mode = OVERWRITE
    /\ last.split[1].result.success
    /\ last.split[1].result.operation[1].tasks_before_count = 2
    /\ last.split[1].result.operation[1].tasks_removed = 1
    /\ \E k \in DOMAIN table : table[k].status = COMPLETED

\* C15: a successful CLEAR_ALL split on a store of n tasks with k templates
\* reports tasks_before_count = n, tasks_removed = n, tasks_added = k and
\* tasks_after_count = k, and afterwards the store holds exactly the k new
\* tasks.
C15_ClearAllCounts ==
    [][(SuccessfulSplit /\ SplitCall.request.update_mode = CLEAR_ALL_TASKS)
          => LET n == Len(table)
                 templates == SplitCall.request.task_templates
                 k == Len(templates)
                 operation == SplitCall.result.operation[1]
                 created_tasks == SplitCall.result.created_tasks
             IN  /\ operation.tasks_before_count = n
                 /\ operation.tasks_removed = n
                 /\ operation.tasks_added = k
                 /\ operation.tasks_after_count = k
                 /\ Len(table') = k
                 /\ Len(created_tasks) = k
                 /\ TableIds(table') = TableIds(created_tasks)
                 /\ TableIds(table') \cap TableIds(table) = {}
                 /\ NxNodes(graph') = TableIds(table')
                 /\ \A i \in DOMAIN templates :
                       Row(table', created_tasks[i].id).name
                           = templates[i].name]_vars

\* a CLEAR_ALL split of two templates succeeded on a store of one task
C15_Witness ==
    /\ last.op = "split_tasks"
    /\ last.split[1].request.update_mode = CLEAR_ALL_TASKS
    /\ last.split[1].result.success
    /\ last.split[1].result.operation[1].tasks_before_count = 1
    /\ Len(last.split[1].request.task_templates) = 2
    /\ Len(table) = 2

\* every dependency id on a record of T is the id of a record of T
DependencyIntegrity(T) ==
    \A k \in DOMAIN T : SeqToSet(T[k].dependencies) \subseteq TableIds(T)

\* the delete_task call of a step returned true
SuccessfulDelete ==
    /\ last'.op = "delete_task"
    /\ last'.raised = NoError
    /\ last'.ret = TRUE

\* C16: dependency integrity is preserved by every successful delete_task
\* call and every successful split of any mode: when every dependency id on
\* a record referred to a stored task before the call, every dependency id on
\* a surviving record refers to a stored task after it.
C16_DependencyIntegrityPreserved ==
    [][(DependencyIntegrity(table) /\ (SuccessfulDelete \/ SuccessfulSplit))
          => DependencyIntegrity(table')]_vars

\* t is b, or t is reached from b along edges of G
ReachableFrom(G, b, t) == b = t \/ Reaches(G, b, t)

\* the add_edge call of a step, both endpoints being nodes of the graph
AddEdgeBetweenNodes ==
    /\ last'.op = "add_edge"
    /\ {last'.arg[1], last'.arg[2]} \subseteq DOMAIN nodes

\* C17: for an edge from -> to with both endpoints present, add_edge returns
\* true if and only if, in the graph before the call, from is not reachable
\* from to, where from = to counts as reachable (a self-loop is rejected).
C17_AddEdgeIffUnreachable ==
    [][AddEdgeBetweenNodes
          => (last'.ret <=> ~ReachableFrom(graph, last'.arg[2], last'.arg[1]))]_vars

\* an edge was rejected whose source is reached from its target through a
\* third node only
C17_Witness ==
    /\ last.op = "add_edge"
    /\ ~last.ret
    /\ {last.arg[1], last.arg[2]} \subseteq DOMAIN nodes
    /\ last.arg[1] # last.arg[2]
    /\ ~NxHasEdge(graph, last.arg[2], last.arg[1])
    /\ Reaches(graph, last.arg[2], last.arg[1])

\* the remove_node call of a step, its argument being a node of the graph
RemoveOfPresentNode ==
    /\ last'.op = "remove_node"
    /\ last'.arg[1] \in DOMAIN nodes

\* C18: for every node n present in the graph, remove_node(n) returns true
\* and afterwards get_all_edges() has no edge whose from_id or to_id is n,
\* while every edge not touching n is still present.
C18_RemoveNodeCascades ==
    [][RemoveOfPresentNode
          => /\ last'.ret
             /\ NoEdgeTouches(gstore', last'.arg[1])
             /\ \A edge \in get_all_edges(gstore) :
                   (edge.from_id # last'.arg[1] /\ edge.to_id # last'.arg[1])
                       => edge \in get_all_edges(gstore')]_vars

\* a node was removed and an edge is left, which does not touch it
C18_Witness ==
    /\ last.op = "remove_node"
    /\ last.ret
    /\ last.arg[1] \notin DOMAIN nodes
    /\ get_all_edges(gstore) # {}

\* C19: delete_task(id) returns false, without raising and without changing
\* either store, when no task with that id exists; when it returns true, id
\* is afterwards absent from the record store, has no graph node, and no
\* graph edge touches it.
C19_DeleteTaskOutcome ==
    [][last'.op = "delete_task"
          => /\ ~exists(table, last'.arg[1])
                   => /\ last'.raised = NoError
                      /\ ~last'.ret
                      /\ table' = table
                      /\ graph' = graph
                      /\ nodes' = nodes
             /\ (last'.raised = NoError /\ last'.ret)
                   => Absent(table', gstore', last'.arg[1])]_vars

\* delete_task returned true for a task another task depends on
C19_Witness ==
    /\ last.op = "delete_task"
    /\ last.raised = NoError
    /\ last.ret
    /\ \E k \in DOMAIN table :
          last.arg[1] \in SeqToSet(table[k].dependencies)

\* delete_task returned false for an id without a task, on a store that
\* holds a task
C19_WitnessAbsent ==
    /\ last.op = "delete_task"
    /\ last.raised = NoError
    /\ ~last.ret
    /\ table # <<>>

\* the add_dependency(t, d) call of a step, both tasks being stored and the
\* edge t -> d closing a cycle in the graph of the state before
CycleClosingAddDependency ==
    /\ last'.op = "add_dependency"
    /\ exists(table, last'.arg[1])
    /\ exists(table, last'.arg[2])
    /\ ReachableFrom(graph, last'.arg[2], last'.arg[1])

\* C20: add_dependency(t, d) with both tasks existing, where the edge t -> d
\* would close a cycle in the dependency graph, returns false and leaves the
\* graph edges and the persisted dependency list of t unchanged.
C20_CycleClosingDependencyRejected ==
    [][CycleClosingAddDependency
          => /\ last'.raised = NoError
             /\ ~last'.ret
             /\ LabelledEdges(gstore') = LabelledEdges(gstore)
             /\ exists(table', last'.arg[1])
             /\ Row(table', last'.arg[1]).dependencies
                    = Row(table, last'.arg[1]).dependencies]_vars

\* add_dependency(t, d) returned false for two stored tasks, d depending on t
C20_Witness ==
    /\ last.op = "add_dependency"
    /\ last.raised = NoError
    /\ ~last.ret
    /\ last.arg[1] # last.arg[2]
    /\ exists(table, last.arg[1])
    /\ exists(table, last.arg[2])
    /\ NxHasEdge(graph, last.arg[2], last.arg[1])
    /\ last.arg[1] \in PersistedDeps(table, last.arg[2])

\* x stands before y in the sequence s, both being entries of it
Before(s, x, y) ==
    /\ {x, y} \subseteq SeqToSet(s)
    /\ Index(s, x) < Index(s, y)

MaxKnown == 2
MaxResolverDeps == 2

\* a known task may carry any name, the text of another task's identifier
\* included
KnownNames == TemplateNames \cup {IdStr(1)}

KnownTasks ==
    {Task(id, n, d, PENDING, NONE, 0, <<>>) :
        id \in Ids, n \in KnownNames, d \in Descriptions}

\* lists of known tasks, no identifier twice
KnownTaskLists ==
    {known \in SeqsUpTo(KnownTasks, MaxKnown) :
        \A i, j \in DOMAIN known : known[i].id = known[j].id => i = j}

\* references: template names, and the texts of two identifiers
ResolverRefs == TemplateNames \cup {IdStr(1), IdStr(2)}

ResolverTemplates ==
    {TaskTemplate(n, d, deps, e.complexity, e.estimated_hours) :
        n \in TemplateNames, d \in TemplateDescriptions,
        deps \in SeqsUpTo(ResolverRefs, MaxResolverDeps), e \in Estimates}

ResolverBatches ==
    {b \in SeqsUpTo(ResolverTemplates, MaxTemplates) :
        validate_task_templates(b)}

\* a call of a resolver method: its arguments and what it returned
ResolverCall(op, templates, existing_tasks, raised, result) ==
    [op |-> op, arg |-> <<>>, raised |-> raised, ret |-> raised = NoError,
     split |-> <<[templates |-> templates, existing_tasks |-> existing_tasks,
                  result |-> result]>>]

ResolveTaskDependencies ==
    /\ ops < MaxOps
    /\ \E existing_tasks \in KnownTaskLists :
          \E templates \in ResolverBatches :
              /\ Len(templates) <= Len(Ascending(Ids \ TableIds(existing_tasks)))
              /\ \E r \in {resolve_task_dependencies(
                               templates, existing_tasks,
                               Ascending(Ids \ TableIds(existing_tasks)))} :
                    /\ ops' = MaxOps
                    /\ UNCHANGED loop
                    /\ last' = ResolverCall("resolve_task_dependencies",
                                            templates, existing_tasks,
                                            r.raised, r.ret)
                    /\ UNCHANGED <<graph, nodes, table>>

\* templates per call of the cycle test and of the sort
MaxDetectTemplates == 3

DetectNames == SeqToSet(Alphabet)

\* templates that differ in name and dependencies only
DetectTemplates ==
    {TaskTemplate(n, d, deps, NONE, 0) :
        n \in DetectNames, d \in TemplateDescriptions,
        deps \in SeqsUpTo(DetectNames, MaxResolverDeps)}

\* the resolver accepts any list, the same name twice included
DetectBatches == SeqsUpTo(DetectTemplates, MaxDetectTemplates) \ {<<>>}

DetectCircularDependencies ==
    /\ ops < MaxOps
    /\ \E templates \in DetectBatches :
          \E r \in {detect_circular_dependencies(templates)} :
              /\ ops' = MaxOps
              /\ UNCHANGED loop
              /\ last' = ResolverCall("detect_circular_dependencies",
                                      templates, <<>>, NoError, r)
              /\ UNCHANGED <<graph, nodes, table>>

\* the orders in which a set can be iterated
Orders(S) ==
    {q \in [1..Cardinality(S) -> S] : \A i, j \in DOMAIN q : q[i] = q[j] => i = j}

TopologicalSort ==
    /\ ops < MaxOps
    /\ \E templates \in DetectBatches :
          \E queue \in Orders({n \in DOMAIN InDegree(templates) :
                                  InDegree(templates)[n] = 0}) :
              \E r \in {DependencyResolver_topological_sort(templates, queue)} :
                  /\ ops' = MaxOps
                  /\ UNCHANGED loop
                  /\ last' = ResolverCall("topological_sort", templates, <<>>,
                                          NoError, r)
                  /\ UNCHANGED <<graph, nodes, table>>

NextResolver ==
    \/ ResolveTaskDependencies
    \/ DetectCircularDependencies
    \/ TopologicalSort

SpecResolver == Init /\ [][NextResolver]_vars

RECURSIVE ResolvesTo(_, _, _)
\* dependencies holds, for each reference in order, the id of the known task
\* whose id text is the reference, otherwise the id of a known task whose
\* name is the reference, and nothing for a reference that matches neither
ResolvesTo(refs, known, dependencies) ==
    IF refs = <<>> THEN dependencies = <<>>
    ELSE IF \E k \in DOMAIN known : IdStr(known[k].id) = Head(refs)
    THEN /\ dependencies # <<>>
         /\ Head(dependencies) \in TableIds(known)
         /\ IdStr(Head(dependencies)) = Head(refs)
         /\ ResolvesTo(Tail(refs), known, Tail(dependencies))
    ELSE IF \E k \in DOMAIN known : known[k].name = Head(refs)
    THEN /\ dependencies # <<>>
         /\ \E k \in DOMAIN known :
               /\ known[k].name = Head(refs)
               /\ known[k].id = Head(dependencies)
         /\ ResolvesTo(Tail(refs), known, Tail(dependencies))
    ELSE ResolvesTo(Tail(refs), known, dependencies)

\* C23: resolve_task_dependencies(templates, known) returns one task per
\* template, in template order, whose dependency list holds for each
\* reference string in order the id of the known task whose id string equals
\* the reference, otherwise the id of the known task whose name equals it,
\* and nothing for a reference that matches neither; hence every resolved
\* dependency id is the id of a known task.
C23_ResolvedDependencies ==
    (last.op = "resolve_task_dependencies" /\ last.raised = NoError)
        => LET call == last.split[1]
           IN  /\ Len(call.result) = Len(call.templates)
               /\ \A i \in DOMAIN call.templates :
                     /\ call.result[i].name = call.templates[i].name
                     /\ call.result[i].description
                            = call.templates[i].description
                     /\ ResolvesTo(call.templates[i].dependencies,
                                   call.existing_tasks,
                                   call.result[i].dependencies)
                     /\ SeqToSet(call.result[i].dependencies)
                            \subseteq TableIds(call.existing_tasks)

\* a reference that matches nothing was dropped and the next one, which is
\* the id text of one known task and the name of another, was resolved
C23_Witness ==
    /\ last.op = "resolve_task_dependencies"
    /\ last.raised = NoError
    /\ \E i \in DOMAIN last.split[1].templates :
          /\ last.split[1].templates[i].dependencies = <<"task-b", IdStr(1)>>
          /\ last.split[1].result[i].dependencies = <<1>>
    /\ \E k \in DOMAIN last.split[1].existing_tasks :
          /\ last.split[1].existing_tasks[k].name = IdStr(1)
          /\ last.split[1].existing_tasks[k].id = 2

\* there are templates t1..tn, n >= 1, each t(i+1) listing the name of t(i)
\* as a dependency and t1 listing the name of tn
NameCycle(templates) ==
    \E n \in 1..Len(templates) :
        \E t \in [1..n -> DOMAIN templates] :
            /\ \A i \in 1..(n - 1) :
                  templates[t[i]].name
                      \in SeqToSet(templates[t[i + 1]].dependencies)
            /\ templates[t[n]].name \in SeqToSet(templates[t[1]].dependencies)

\* C24: detect_circular_dependencies(templates) returns true if and only if
\* the name graph built from the templates' dependency strings contains a
\* directed cycle: templates t1..tn (n >= 1) where each t(i+1) lists the name
\* of t(i) as a dependency and t1 lists the name of tn; a template depending
\* on its own name counts.
C24_DetectsExactlyNameCycles ==
    last.op = "detect_circular_dependencies"
        => (last.split[1].result <=> NameCycle(last.split[1].templates))

\* a cycle through three templates, none of which names itself or is named
\* back by the one it names, was detected
C24_Witness ==
    /\ last.op = "detect_circular_dependencies"
    /\ last.split[1].result
    /\ LET templates == last.split[1].templates
       IN  /\ Len(templates) = 3
           /\ NameCycle(templates)
           /\ \A i, j \in DOMAIN templates :
                 templates[i].name \in SeqToSet(templates[j].dependencies)
                     => /\ i # j
                        /\ templates[j].name
                               \notin SeqToSet(templates[i].dependencies)

\* C25: DependencyResolver.topological_sort(templates) returns every template
\* name exactly once, and when the template name graph is acyclic every
\* dependency that names another template of the batch appears before the
\* template that lists it.
C25_TemplateOrder ==
    last.op = "topological_sort"
        => LET templates == last.split[1].templates
               result == last.split[1].result
           IN  /\ SeqToSet(result)
                      = {templates[i].name : i \in DOMAIN templates}
               /\ NoDuplicates(result)
               /\ ~NameCycle(templates)
                     => \A i, j \in DOMAIN templates :
                           templates[i].name
                                  \in SeqToSet(templates[j].dependencies)
                               => Before(result, templates[i].name,
                                         templates[j].name)

\* three templates were sorted, the first listed depending on the other two
\* and the last listed on the second
C25_Witness ==
    /\ last.op = "topological_sort"
    /\ LET templates == last.split[1].templates
       IN  /\ Len(templates) = 3
           /\ ~NameCycle(templates)
           /\ templates[1].dependencies
                  = <<templates[2].name, templates[3].name>>
           /\ templates[3].dependencies = <<templates[2].name>>
           /\ last.split[1].result
                  = <<templates[2].name, templates[3].name, templates[1].name>>

(***************************************************************************)
(* Reachability queries of the graph store                                 *)
(***************************************************************************)
NodeNotFound == "NodeNotFound"
NetworkXNoPath == "NetworkXNoPath"

\* the paths from source to target along edges of G, source = target giving
\* the path of one node
NxPaths(G, source, target) ==
    {path \in UNION {[1..k -> NxNodes(G)] : k \in 1..Len(G.order)} :
        /\ path[1] = source
        /\ path[Len(path)] = target
        /\ \A i \in 1..(Len(path) - 1) : NxHasEdge(G, path[i], path[i + 1])}

\* networkx.shortest_path(G, source, target): the outcomes it can have; which
\* of several shortest paths is returned is left open
NxShortestPath(G, source, target) ==
    IF source \notin NxNodes(G) \/ target \notin NxNodes(G)
    THEN {[raised |-> NodeNotFound, ret |-> <<>>]}
    ELSE IF NxPaths(G, source, target) = {}
    THEN {[raised |-> NetworkXNoPath, ret |-> <<>>]}
    ELSE {[raised |-> NoError, ret |-> path] :
             path \in {p \in NxPaths(G, source, target) :
                          \A q \in NxPaths(G, source, target) :
                              Len(p) <= Len(q)}}

\* ret: <<>> for None, <<path>> for a path; both networkx errors are caught
get_shortest_path(gs, from_id, to_id) ==
    {[raised |-> NoError,
      ret |-> IF r.raised # NoError THEN <<>> ELSE <<r.ret>>] :
        r \in NxShortestPath(gs.graph, from_id, to_id)}

\* list(nx.descendants(G, node_id)): the set in any order
get_descendants(gs, node_id) ==
    IF node_id \notin NxNodes(gs.graph)
    THEN {[raised |-> NoError, ret |-> <<>>]}
    ELSE {[raised |-> NoError, ret |-> order] :
             order \in Orders({n \in NxNodes(gs.graph) \ {node_id} :
                                  NxPaths(gs.graph, node_id, n) # {}})}

get_ancestors(gs, node_id) ==
    IF node_id \notin NxNodes(gs.graph)
    THEN {[raised |-> NoError, ret |-> <<>>]}
    ELSE {[raised |-> NoError, ret |-> order] :
             order \in Orders({n \in NxNodes(gs.graph) \ {node_id} :
                                  NxPaths(gs.graph, n, node_id) # {}})}

\* nx.has_path catches NetworkXNoPath only: NodeNotFound propagates
is_reachable(gs, from_id, to_id) ==
    {[raised |-> IF r.raised = NodeNotFound THEN NodeNotFound ELSE NoError,
      ret |-> r.raised = NoError] :
        r \in NxShortestPath(gs.graph, from_id, to_id)}

\* a query and what it returned: result holds the path option or the list,
\* ret the boolean of is_reachable
Query(op, arg, r, result) ==
    [Call(op, arg, r.raised, r.ret) EXCEPT !.split = <<[result |-> result]>>]

ReachabilityQuery ==
    /\ UNCHANGED <<graph, nodes, table, ops, loop>>
    /\ \E a \in Ids, b \in Ids :
          \/ \E r \in get_shortest_path(gstore, a, b) :
                last' = Query("get_shortest_path", <<a, b>>,
                              [r EXCEPT !.ret = TRUE], r.ret)
          \/ \E r \in get_descendants(gstore, a) :
                last' = Query("get_descendants", <<a>>,
                              [r EXCEPT !.ret = TRUE], r.ret)
          \/ \E r \in get_ancestors(gstore, a) :
                last' = Query("get_ancestors", <<a>>,
                              [r EXCEPT !.ret = TRUE], r.ret)
          \/ \E r \in is_reachable(gstore, a, b) :
                last' = Query("is_reachable", <<a, b>>, r, <<>>)

NextReach ==
    \/ AddNode
    \/ AddEdge
    \/ RemoveNode
    \/ ReachabilityQuery

SpecReach == Init /\ [][NextReach]_vars

\* the call of a reachability query on an identifier that is not a node
QueryOnAbsentNode ==
    /\ last.op \in {"get_shortest_path", "get_descendants", "get_ancestors",
                    "is_reachable"}
    /\ \E i \in DOMAIN last.arg : last.arg[i] \notin NxNodes(graph)

\* C26: get_shortest_path, get_ancestors, get_descendants and is_reachable,
\* called with an identifier that is not a node of the graph, return an
\* empty or negative result (no path, empty list, false) and never raise an
\* error.
C26_AbsentNodeQueries ==
    QueryOnAbsentNode
        => /\ last.raised = NoError
           /\ last.split[1].result = <<>>
           /\ last.op = "is_reachable" => ~last.ret

\* the error, if any, that the strategy of the request raises on the stores
\* of the state: in its deletion step or while creating or updating tasks
StrategyError(request) ==
    LET templates == request.task_templates
        existing_tasks == get_all_tasks(service)
    IN  IF request.update_mode = CLEAR_ALL_TASKS
        THEN LET cleared == clear_all_tasks(service)
             IN  IF cleared.raised # NoError THEN cleared.raised
                 ELSE _create_tasks_from_templates(
                          [table |-> cleared.table, gs |-> cleared.gs],
                          templates, <<>>, NewIdSeq).raised
        ELSE IF request.update_mode = APPEND
        THEN _create_tasks_from_templates(service, templates, existing_tasks,
                                          NewIdSeq).raised
        ELSE IF request.update_mode = SELECTIVE
        THEN _selective_update_tasks(service, templates, existing_tasks,
                                     NewIdSeq).raised
        ELSE LET deleted == DeleteUnfinished(service, existing_tasks, 0)
             IN  IF deleted.raised # NoError THEN deleted.raised
                 ELSE _create_tasks_from_templates(
                          [table |-> deleted.table, gs |-> deleted.gs],
                          templates,
                          SelectSeq(existing_tasks,
                                    LAMBDA task : task.status = COMPLETED),
                          NewIdSeq).raised

\* C27: split_tasks never propagates an exception to its caller: any error
\* raised while applying the strategy's deletion step or while creating or
\* updating tasks yields a returned result with success = false, operation =
\* None and a non-empty error list carrying the error message.
C27_StrategyErrorsReturned ==
    [][(/\ last'.op = "split_tasks"
        /\ validate_split_request(SplitCall.request).is_valid
        /\ StrategyError(SplitCall.request) # NoError)
          => /\ last'.raised = NoError
             /\ ~SplitCall.result.success
             /\ SplitCall.result.operation = <<>>
             /\ SplitCall.result.errors
                    = <<StrategyError(SplitCall.request)>>]_vars

\* a SELECTIVE split whose request was valid returned the error raised while
\* its tasks were created or updated, on a store that holds a task
C27_Witness ==
    /\ last.op = "split_tasks"
    /\ last.split[1].request.update_mode = SELECTIVE
    /\ validate_split_request(last.split[1].request).is_valid
    /\ ~last.split[1].result.success
    /\ last.split[1].result.operation = <<>>
    /\ last.split[1].result.errors = <<ErrSimpleHours>>
    /\ table # <<>>

\* no persisted dependency list of T holds an id twice, and each list has as
\* many entries as the graph has edges leaving its task
DependencyListsMatchEdges(T, G) ==
    \A k \in DOMAIN T :
        /\ NoDuplicates(T[k].dependencies)
        /\ Len(T[k].dependencies)
               = Cardinality({p \in NxEdges(G) : p[1] = T[k].id})

\* C29: add_dependency and remove_dependency calls, add_dependency called
\* again with the same pair of tasks included, leave no persisted dependency
\* list with the same task id more than once, so that the number of entries
\* of each list equals the number of graph edges leaving its task.
C29_NoDuplicateDependencies ==
    [][(/\ last'.op \in {"add_dependency", "remove_dependency"}
        /\ DependencyListsMatchEdges(table, graph))
          => DependencyListsMatchEdges(table', graph')]_vars

\* the counts of a split's operation record balance
CountsBalance(operation) ==
    operation.tasks_after_count
        = operation.tasks_before_count + operation.tasks_added
              - operation.tasks_removed

\* C30: for every successful split in every update mode the operation
\* record satisfies
\* tasks_after_count = tasks_before_count + tasks_added - tasks_removed.
C30_CountsBalance ==
    [][SuccessfulSplit => CountsBalance(SplitCall.result.operation[1])]_vars

(***************************************************************************)
(* Coroutines of the graph store on one event loop                         *)
(***************************************************************************)
\* most coroutines scheduled on the loop in one behaviour
MaxCoroutines == 2

\* the coroutine functions of the store whose body waits for something that
\* is not ready: none; _would_create_cycle and has_cycle hold no await
\* expression at all
SuspendingCoroutines == {}

\* variant: every await hands control to the event loop
AwaitSuspends_always(callee) == TRUE

\* `await callee(...)` hands control to the event loop only when the body of
\* callee suspends; a coroutine that reaches its return without suspending
\* runs inline in its caller
AwaitSuspends(callee) == callee \in SuspendingCoroutines

\* a scheduled call: arg is <<edge>> for add_edge and <<>> otherwise, pc the
\* statement it is at, has_cycle the value its await delivered
Coroutine(op, arg) ==
    [op |-> op, arg |-> arg, pc |-> op, has_cycle |-> FALSE,
     raised |-> FALSE, ret |-> <<>>]

CoroutineCalls ==
    {Coroutine("add_edge", <<GraphEdge(f, t, DEPENDS_ON)>>) :
        f \in Ids, t \in Ids}
        \cup {Coroutine("has_cycle", <<>>), Coroutine("topological_sort", <<>>)}

\* the coroutine function a call awaits
Awaited(op) == IF op = "add_edge" THEN "_would_create_cycle" ELSE "has_cycle"

Return(task, value) == [task EXCEPT !.pc = "done", !.ret = <<value>>]

\* the next statement of an add_edge call
AddEdgeStep(gs, task) ==
    LET edge == task.arg[1]
    IN  IF task.pc = "add_edge"
        THEN IF \/ edge.from_id \notin DOMAIN gs.nodes
                \/ edge.to_id \notin DOMAIN gs.nodes
             THEN [gs |-> gs, task |-> Return(task, FALSE)]
             ELSE [gs |-> gs,
                   task |-> [task EXCEPT !.pc = "_would_create_cycle"]]
        ELSE IF task.pc = "_would_create_cycle"
        THEN [gs   |-> [gs EXCEPT !.graph =
                          NxAddEdge(@, edge.from_id, edge.to_id,
                                    edge.relationship)],
              task |-> [task EXCEPT !.pc = "inserted"]]
        ELSE IF task.pc = "inserted"
        THEN [gs   |-> gs,
              task |-> [task EXCEPT
                          !.pc = "tested",
                          !.has_cycle = ~NxIsDirectedAcyclicGraph(gs.graph)]]
        ELSE IF task.pc = "tested"
        THEN [gs   |-> [gs EXCEPT !.graph =
                          NxRemoveEdge(@, edge.from_id, edge.to_id)],
              task |-> [task EXCEPT !.pc = "awaited"]]
        ELSE IF task.has_cycle
        THEN [gs |-> gs, task |-> Return(task, FALSE)]
        ELSE [gs   |-> [gs EXCEPT !.graph =
                          NxAddEdge(@, edge.from_id, edge.to_id,
                                    edge.relationship)],
              task |-> Return(task, TRUE)]

\* the next statement of a topological_sort call; raised stands for
\* ValueError, which is also what a NetworkXError of the sort is turned into
TopologicalSortStep(gs, task) ==
    IF task.pc = "topological_sort"
    THEN [gs   |-> gs,
          task |-> [task EXCEPT !.pc = "awaited", !.has_cycle = has_cycle(gs)]]
    ELSE IF task.has_cycle \/ NxTopologicalSort(gs.graph).unfeasible
    THEN [gs |-> gs, task |-> [task EXCEPT !.pc = "done", !.raised = TRUE]]
    ELSE [gs |-> gs, task |-> Return(task, NxTopologicalSort(gs.graph).sorted)]

CoroutineStep(gs, task) ==
    IF task.op = "add_edge" THEN AddEdgeStep(gs, task)
    ELSE IF task.op = "topological_sort" THEN TopologicalSortStep(gs, task)
    ELSE [gs |-> gs, task |-> Return(task, has_cycle(gs))]

\* the call has handed control to the event loop
Suspended(task) == task.pc = "awaited" /\ AwaitSuspends(Awaited(task.op))

\* asyncio.create_task(store.add_edge(edge)) and the like
CreateCoroutine ==
    /\ loop.running = 0
    /\ Len(loop.tasks) < MaxCoroutines
    /\ \E c \in CoroutineCalls :
          /\ loop' = [loop EXCEPT !.tasks = Append(@, c)]
          /\ UNCHANGED <<graph, nodes, table, last, ops>>

\* the event loop resumes a coroutine, or the running one goes on
RunCoroutine ==
    \E i \in DOMAIN loop.tasks :
        /\ loop.running \in {0, i}
        /\ loop.tasks[i].pc # "done"
        /\ \E r \in {CoroutineStep(gstore, loop.tasks[i])} :
              /\ graph' = r.gs.graph
              /\ nodes' = r.gs.nodes
              /\ loop' = [tasks   |-> [loop.tasks EXCEPT ![i] = r.task],
                          running |-> IF r.task.pc = "done" \/ Suspended(r.task)
                                      THEN 0 ELSE i]
              /\ UNCHANGED <<table, last, ops>>

\* add_node holds no await: it runs while no coroutine is executing
AddNodeBetween == loop.running = 0 /\ AddNode

NextAsync == AddNodeBetween \/ CreateCoroutine \/ RunCoroutine

SpecAsync == Init /\ [][NextAsync]_vars

\* call i of the loop is an add_edge call that returned True
Accepted(i) ==
    /\ loop.tasks[i].op = "add_edge"
    /\ loop.tasks[i].pc = "done"
    /\ loop.tasks[i].ret = <<TRUE>>

\* the edges of calls i and j are a -> b and b -> a
Opposite(i, j) ==
    /\ loop.tasks[i].arg[1].from_id = loop.tasks[j].arg[1].to_id
    /\ loop.tasks[i].arg[1].to_id = loop.tasks[j].arg[1].from_id

\* C28: when coroutines calling add_edge, has_cycle and topological_sort on
\* one graph store are interleaved at the suspension points of the code, the
\* graph is acyclic wherever another coroutine can run: no has_cycle call
\* returns True and no topological_sort call raises, so no reader observes
\* the speculatively inserted edge, and two add_edge calls with the edges
\* a -> b and b -> a are never both accepted.
C28_CoroutinesKeepDag ==
    /\ loop.running = 0 => ~has_cycle(gstore)
    /\ \A i \in DOMAIN loop.tasks :
          loop.tasks[i].pc = "done" =>
              /\ loop.tasks[i].op = "has_cycle" => loop.tasks[i].ret = <<FALSE>>
              /\ loop.tasks[i].op = "topological_sort" => ~loop.tasks[i].raised
    /\ \A i \in DOMAIN loop.tasks, j \in DOMAIN loop.tasks :
          (Accepted(i) /\ Accepted(j)) => ~Opposite(i, j)

\* add_edge calls with the edges 1 -> 2 and 2 -> 1 have both returned: the
\* first was accepted, the second found the cycle its own edge closed and
\* was rejected, and the loop is free
C28_Witness ==
    /\ Len(loop.tasks) = 2
    /\ Accepted(1)
    /\ loop.tasks[1].arg[1].from_id = 1
    /\ loop.tasks[1].arg[1].to_id = 2
    /\ loop.tasks[2].op = "add_edge"
    /\ Opposite(1, 2)
    /\ loop.tasks[2].pc = "done"
    /\ loop.tasks[2].has_cycle
    /\ loop.tasks[2].ret = <<FALSE>>
    /\ loop.running = 0
    /\ NxEdges(graph) = {<<1, 2>>}
====
